---- MODULE Spec2Model ----
(***************************************************************************)
(* Model of the disk cache of madridFines: Cache (cache.py), a file-per-   *)
(* key store under <base_dir>/<app_name>, and CacheUrl (cacheUrl.py), its   *)
(* subclass that keys entries by the MD5 digest of a URL and fetches the    *)
(* body over HTTP on a miss.                                                *)
(*                                                                          *)
(* A string is a sequence of characters; CR and LF stand for '\r' and '\n'. *)
(* Files are opened in text mode with the default newline handling, so the  *)
(* model carries the translation Python applies on write and on read.       *)
(***************************************************************************)
EXTENDS Integers, Sequences, FiniteSets, TLC

VARIABLES
    platform,   \* the platform the interpreter runs on (fixed for a run)
    objs,       \* the cache objects: app_name, obsolescence, class
    fs,         \* the file system under base_dir: app_name -> directory
    now,        \* time.time()
    written,    \* history: payload handed to the latest write of each file
    last        \* the call that has just completed and its outcome

vars == <<platform, objs, fs, now, written, last>>

----------------------------------------------------------------------------
(* Values *)

CR == "CR"
LF == "LF"

None   == "None"

\* the value of last before any call: no method, no object, no outcome
NoCall ==
    [op |-> "init", inst |-> 0, arg |-> None, data |-> None, key |-> None,
     err |-> "none", ret |-> None, reqs |-> <<>>, unlinked |-> {}]

Platforms == {"linux", "darwin", "win32"}

\* payloads handed to set and bodies served over HTTP
Payloads == { <<"a">>, <<"a", LF>>, <<"a", CR, LF>> }

AppNames == {"app1", "app2"}

\* URLs handed to the URL cache; each contains '/' characters
Urls == {"http://x/a.csv", "http://x/b.csv", "http://x/c.csv"}

\* file names that can exist directly under a namespace directory
FileNames == {"f.txt", "md5_a", "md5_b"}

\* names a caller may hand to Cache: plain file names, or strings with '/',
\* which name a path below a subdirectory that no method ever creates
\* (the empty name, "." and "..", which name directories, are left out)
Names == FileNames \cup Urls

Insts == {1, 2, 3}

\* requests.get(url): a response with a status and a text, or an exception
\* raised by the transport
Responses ==
    { [exc |-> "none", status |-> 200, text |-> t] : t \in Payloads }
    \cup { [exc |-> "none", status |-> 500, text |-> <<"a">>] }
    \cup { [exc |-> "ConnectionError", status |-> 0, text |-> <<>>] }

----------------------------------------------------------------------------
(* Text-mode file I/O: open(file, 'w') / open(file) with newline=None *)

linesep(p) == IF p = "win32" THEN <<CR, LF>> ELSE <<LF>>

\* f.write(data): every '\n' is written as os.linesep
RECURSIVE write_text(_, _)
write_text(s, p) ==
    IF s = <<>> THEN <<>>
    ELSE (IF Head(s) = LF THEN linesep(p) ELSE <<Head(s)>>)
         \o write_text(Tail(s), p)

\* f.read(): universal newlines, '\r\n' and '\r' are returned as '\n'
RECURSIVE read_text(_)
read_text(s) ==
    IF s = <<>> THEN <<>>
    ELSE IF Head(s) = CR
         THEN <<LF>> \o read_text(IF Len(s) > 1 /\ s[2] = LF
                                  THEN Tail(Tail(s)) ELSE Tail(s))
         ELSE <<Head(s)>> \o read_text(Tail(s))

\* os.stat_result has st_birthtime only on some platforms
has_birthtime(p) == p \in {"darwin", "win32"}

----------------------------------------------------------------------------
(* Outcome of a call: the file system it leaves, what it returns, the       *)
(* exception it raises ("none" when it returns), the HTTP GETs it issued    *)
(* and the files it unlinked                                                *)

Outcome(f, r, e, q, u) ==
    [fs |-> f, ret |-> r, err |-> e, reqs |-> q, unlinked |-> u]

\* a call that touches neither the network nor, by unlink, the directory
Result(f, r, e) == Outcome(f, r, e, <<>>, {})

\* the HTTP GET of url and how it ended
Request(url, resp) == [url |-> url, exc |-> resp.exc, status |-> resp.status]

\* fs maps each existing namespace directory to its files, and a directory
\* maps the name of each file in it to the file's content and timestamps
EmptyDir == [n \in {} |-> None]

dir_exists(self) == self.app_name \in DOMAIN fs

\* self.__cache_dir / name exists
path_exists(self, name) ==
    /\ dir_exists(self)
    /\ name \in DOMAIN fs[self.app_name]

\* a directory with file name created or replaced / removed
with_file(d, name, f) ==
    [n \in DOMAIN d \cup {name} |-> IF n = name THEN f ELSE d[n]]

without_file(d, name) == [n \in DOMAIN d \ {name} |-> d[n]]

----------------------------------------------------------------------------
(* class Cache *)

Cache_set(self, name, data) ==
    IF ~dir_exists(self) \/ name \notin FileNames
    THEN Result(fs, None, "FileNotFoundError")
    ELSE LET d   == fs[self.app_name]
             new == [content   |-> write_text(data, platform),
                     birthtime |-> IF name \in DOMAIN d
                                   THEN d[name].birthtime ELSE now,
                     mtime     |-> now]
         IN Result([fs EXCEPT ![self.app_name] = with_file(d, name, new)],
                   None, "none")

Cache_exists(self, name) ==
    Result(fs, path_exists(self, name), "none")

\* variant: the file is removed once it has been read
Cache_load_consuming(self, name) ==
    IF path_exists(self, name)
    THEN Outcome([fs EXCEPT ![self.app_name] = without_file(@, name)],
                 read_text(fs[self.app_name][name].content), "none",
                 <<>>, {name})
    ELSE Result(fs, None, "CacheError")

Cache_load(self, name) ==
    IF path_exists(self, name)
    THEN Result(fs, read_text(fs[self.app_name][name].content), "none")
    ELSE Result(fs, None, "CacheError")

\* variant: the age is taken as created_time - time.time()
Cache_how_old_negated(self, name) ==
    IF path_exists(self, name)
    THEN LET st == fs[self.app_name][name]
             created_time == IF has_birthtime(platform)
                             THEN st.birthtime ELSE st.mtime
             age == created_time - now
         IN Result(fs, age * 1000, "none")
    ELSE Result(fs, None, "CacheError")

\* variant: no fallback to st_mtime where st_birthtime is missing
Cache_how_old_no_fallback(self, name) ==
    IF path_exists(self, name)
    THEN IF has_birthtime(platform)
         THEN Result(fs, (now - fs[self.app_name][name].birthtime) * 1000,
                     "none")
         ELSE Result(fs, None, "AttributeError")
    ELSE Result(fs, None, "CacheError")

Cache_how_old(self, name) ==
    IF path_exists(self, name)
    THEN LET st == fs[self.app_name][name]
             created_time == IF has_birthtime(platform)
                             THEN st.birthtime ELSE st.mtime
             age == now - created_time
         IN Result(fs, age * 1000, "none")
    ELSE Result(fs, None, "CacheError")

\* variant: unlink(missing_ok=True) without the existence test
Cache_delete_missing_ok(self, name) ==
    IF path_exists(self, name)
    THEN Outcome([fs EXCEPT ![self.app_name] = without_file(@, name)],
                 None, "none", <<>>, {name})
    ELSE Result(fs, None, "none")

\* variant: the file is looked up but never unlinked
Cache_delete_no_unlink(self, name) ==
    IF path_exists(self, name)
    THEN Outcome(fs, None, "none", <<>>, {name})
    ELSE Result(fs, None, "CacheError")

Cache_delete(self, name) ==
    IF path_exists(self, name)
    THEN Outcome([fs EXCEPT ![self.app_name] = without_file(@, name)],
                 None, "none", <<>>, {name})
    ELSE Result(fs, None, "CacheError")

\* variant: the loop over the directory stops after the first file
Cache_clear_first_only(self) ==
    IF ~dir_exists(self)
    THEN Result(fs, None, "FileNotFoundError")
    ELSE IF DOMAIN fs[self.app_name] = {}
         THEN Result(fs, None, "none")
         ELSE LET f == CHOOSE n \in DOMAIN fs[self.app_name] : TRUE
              IN Outcome([fs EXCEPT ![self.app_name] = without_file(@, f)],
                         None, "none", <<>>, {f})

\* variant: the namespace directory is removed with its files
Cache_clear_rmtree(self) ==
    IF ~dir_exists(self)
    THEN Result(fs, None, "FileNotFoundError")
    ELSE Outcome([a \in DOMAIN fs \ {self.app_name} |-> fs[a]], None, "none",
                 <<>>, DOMAIN fs[self.app_name])

\* variant: the files of every directory under base_dir are removed
Cache_clear_base_dir(self) ==
    IF ~dir_exists(self)
    THEN Result(fs, None, "FileNotFoundError")
    ELSE Outcome([a \in DOMAIN fs |-> EmptyDir], None, "none",
                 <<>>, DOMAIN fs[self.app_name])

Cache_clear(self) ==
    IF ~dir_exists(self)
    THEN Result(fs, None, "FileNotFoundError")
    ELSE Outcome([fs EXCEPT ![self.app_name] = EmptyDir], None, "none",
                 <<>>, DOMAIN fs[self.app_name])

----------------------------------------------------------------------------
(* class CacheUrl(Cache) *)

\* variant: a digest that also depends on the object it is computed by
_hash_per_object(self, url) ==
    IF self.obsolescence = 0
    THEN CASE url = "http://x/a.csv" -> "md5_b"
           [] url = "http://x/b.csv" -> "md5_a"
           [] url = "http://x/c.csv" -> "md5_a"
    ELSE CASE url = "http://x/a.csv" -> "md5_a"
           [] url = "http://x/b.csv" -> "md5_b"
           [] url = "http://x/c.csv" -> "md5_b"

\* hashlib.md5(url.encode("utf-8")).hexdigest(): a fixed function of the
\* string; the second and third URL stand for a pair of colliding strings
_hash(self, url) ==
    CASE url = "http://x/a.csv" -> "md5_a"
      [] url = "http://x/b.csv" -> "md5_b"
      [] url = "http://x/c.csv" -> "md5_b"

\* response.raise_for_status()
raise_for_status(resp) == resp.status >= 400 /\ resp.status < 600

\* variant: the body is stored before the status is looked at
CacheUrl_get_store_first(self, url, resp) ==
    LET url_hashed == _hash(self, url) IN
    IF Cache_exists(self, url_hashed).ret
    THEN Cache_load(self, url_hashed)
    ELSE LET sent == <<Request(url, resp)>> IN
         IF resp.exc # "none"
         THEN Outcome(fs, None, resp.exc, sent, {})
         ELSE LET s == Cache_set(self, url_hashed, resp.text)
              IN IF s.err # "none"
                 THEN Outcome(s.fs, None, s.err, sent, {})
                 ELSE IF raise_for_status(resp)
                      THEN Outcome(s.fs, None, "HTTPError", sent, {})
                      ELSE Outcome(s.fs, resp.text, "none", sent, {})

\* variant: an entry older than obsolescence is fetched again
CacheUrl_get_refresh_stale(self, url, resp) ==
    LET url_hashed == _hash(self, url)
        sent == <<Request(url, resp)>> IN
    IF Cache_exists(self, url_hashed).ret
       /\ Cache_how_old(self, url_hashed).ret <= self.obsolescence
    THEN Cache_load(self, url_hashed)
    ELSE IF resp.exc # "none"
         THEN Outcome(fs, None, resp.exc, sent, {})
         ELSE IF raise_for_status(resp)
              THEN Outcome(fs, None, "HTTPError", sent, {})
              ELSE Outcome(Cache_set(self, url_hashed, resp.text).fs,
                           resp.text, "none", sent, {})

CacheUrl_get(self, url, resp) ==
    LET url_hashed == _hash(self, url) IN
    IF Cache_exists(self, url_hashed).ret
    THEN Cache_load(self, url_hashed)
    ELSE LET sent == <<Request(url, resp)>> IN
         IF resp.exc # "none"
         THEN Outcome(fs, None, resp.exc, sent, {})
         ELSE IF raise_for_status(resp)
              THEN Outcome(fs, None, "HTTPError", sent, {})
              ELSE LET s == Cache_set(self, url_hashed, resp.text)
                   IN IF s.err # "none"
                      THEN Outcome(s.fs, None, s.err, sent, {})
                      ELSE Outcome(s.fs, resp.text, "none", sent, {})

\* variant: an entry counts only while it is younger than obsolescence
CacheUrl_exists_fresh_only(self, url) ==
    IF path_exists(self, _hash(self, url))
    THEN Result(fs, Cache_how_old(self, _hash(self, url)).ret
                        < self.obsolescence * 1000, "none")
    ELSE Result(fs, FALSE, "none")

CacheUrl_exists(self, url) == Cache_exists(self, _hash(self, url))

\* variant: load goes through the fetch of a miss
CacheUrl_load_fetching(self, url) ==
    IF Cache_exists(self, _hash(self, url)).ret
    THEN Cache_load(self, _hash(self, url))
    ELSE Outcome(fs, None, "ConnectionError",
                 <<[url |-> url, exc |-> "ConnectionError", status |-> 0]>>,
                 {})

CacheUrl_load(self, url) == Cache_load(self, _hash(self, url))

CacheUrl_how_old(self, url) == Cache_how_old(self, _hash(self, url))

\* variant: the URL is handed to Cache.delete as it is
CacheUrl_delete_unhashed(self, url) == Cache_delete(self, url)

CacheUrl_delete(self, url) == Cache_delete(self, _hash(self, url))

----------------------------------------------------------------------------
(* Calls on the cache objects.  A method name resolves on the object's     *)
(* class: CacheUrl overrides exists, load, how_old and delete and adds get; *)
(* set and clear are inherited from Cache.                                  *)

IsUrlCache(i) == objs[i].cls = "CacheUrl"

\* arguments a caller passes to the key-taking methods of object i
Args(i) == IF IsUrlCache(i) THEN Urls ELSE Names

\* the file name a key-taking method of object i resolves its argument to
KeyOf(i, x) == IF IsUrlCache(i) THEN _hash(objs[i], x) ELSE x

Call(op, i, arg, data, key, r) ==
    [op |-> op, inst |-> i, arg |-> arg, data |-> data, key |-> key,
     ret |-> r.ret, err |-> r.err, reqs |-> r.reqs, unlinked |-> r.unlinked]

Set(i, name, data) ==
    LET r == Cache_set(objs[i], name, data) IN
    /\ fs' = r.fs
    /\ last' = Call("set", i, name, data, name, r)
    /\ written' = IF r.err = "none"
                  THEN [written EXCEPT ![objs[i].app_name] =
                                           with_file(@, name, data)]
                  ELSE written
    /\ UNCHANGED <<platform, objs, now>>

Exists(i, x) ==
    LET r == IF IsUrlCache(i) THEN CacheUrl_exists(objs[i], x)
                              ELSE Cache_exists(objs[i], x) IN
    /\ fs' = r.fs
    /\ last' = Call("exists", i, x, None, KeyOf(i, x), r)
    /\ UNCHANGED <<platform, objs, now, written>>

Load(i, x) ==
    LET r == IF IsUrlCache(i) THEN CacheUrl_load(objs[i], x)
                              ELSE Cache_load(objs[i], x) IN
    /\ fs' = r.fs
    /\ last' = Call("load", i, x, None, KeyOf(i, x), r)
    /\ UNCHANGED <<platform, objs, now, written>>

HowOld(i, x) ==
    LET r == IF IsUrlCache(i) THEN CacheUrl_how_old(objs[i], x)
                              ELSE Cache_how_old(objs[i], x) IN
    /\ fs' = r.fs
    /\ last' = Call("how_old", i, x, None, KeyOf(i, x), r)
    /\ UNCHANGED <<platform, objs, now, written>>

Delete(i, x) ==
    LET r == IF IsUrlCache(i) THEN CacheUrl_delete(objs[i], x)
                              ELSE Cache_delete(objs[i], x) IN
    /\ fs' = r.fs
    /\ last' = Call("delete", i, x, None, KeyOf(i, x), r)
    /\ written' = IF r.err = "none"
                  THEN [written EXCEPT ![objs[i].app_name] =
                                           without_file(@, KeyOf(i, x))]
                  ELSE written
    /\ UNCHANGED <<platform, objs, now>>

Clear(i) ==
    LET r == Cache_clear(objs[i]) IN
    /\ fs' = r.fs
    /\ last' = Call("clear", i, None, None, None, r)
    /\ written' = IF r.err = "none"
                  THEN [written EXCEPT ![objs[i].app_name] = EmptyDir]
                  ELSE written
    /\ UNCHANGED <<platform, objs, now>>

Get(i, url, resp) ==
    LET r == CacheUrl_get(objs[i], url, resp) IN
    /\ IsUrlCache(i)
    /\ fs' = r.fs
    /\ last' = Call("get", i, url, None, _hash(objs[i], url), r)
    /\ written' = IF r.fs # fs
                  THEN [written EXCEPT ![objs[i].app_name] =
                          with_file(@, _hash(objs[i], url), resp.text)]
                  ELSE written
    /\ UNCHANGED <<platform, objs, now>>

----------------------------------------------------------------------------

\* two URL caches and one generic cache constructed on the namespace "app1"
Init ==
    /\ platform \in Platforms
    /\ objs = [i \in Insts |->
                 [app_name |-> "app1",
                  obsolescence |-> IF i = 1 THEN 0 ELSE 10,
                  cls |-> IF i = 3 THEN "Cache" ELSE "CacheUrl"]]
    /\ fs = [a \in {"app1"} |-> EmptyDir]
    /\ now = 0
    /\ written = [a \in AppNames |-> EmptyDir]
    /\ last = [op |-> "init", inst |-> 0, arg |-> None, data |-> None,
               key |-> None, ret |-> None, err |-> "none", reqs |-> <<>>,
               unlinked |-> {}]

Next ==
    \/ \E i \in Insts, name \in Names, data \in Payloads : Set(i, name, data)
    \/ \E i \in Insts : \E x \in Args(i) : Exists(i, x)
    \/ \E i \in Insts : \E x \in Args(i) : Load(i, x)
    \/ \E i \in Insts : \E x \in Args(i) : HowOld(i, x)
    \/ \E i \in Insts : \E x \in Args(i) : Delete(i, x)
    \/ \E i \in Insts : Clear(i)
    \/ \E i \in Insts, url \in Urls, resp \in Responses : Get(i, url, resp)

Spec == Init /\ [][Next]_vars

----------------------------------------------------------------------------
(* Construction.  Cache.__init__(app_name, obsolescence, cache_dir) with   *)
(* cache_dir left at its default; CacheUrl.__init__ only calls it.          *)

BaseDir == "~/.my_cache"

\* Cache.create_app_dir: mkdir(parents=True, exist_ok=True)
create_app_dir(app_name) ==
    [a \in DOMAIN fs \cup {app_name} |->
        IF a \in DOMAIN fs THEN fs[a] ELSE EmptyDir]

\* variant: the directory is created before obsolescence is looked at
Cache_init_mkdir_first(cls, app_name, obsolescence) ==
    IF obsolescence < 0
    THEN Result(create_app_dir(app_name), None, "CacheError")
    ELSE Result(create_app_dir(app_name),
                [app_name |-> app_name, obsolescence |-> obsolescence,
                 cls |-> cls, cache_dir |-> <<BaseDir, app_name>>],
                "none")

\* the outcome of cls(app_name, obsolescence): ret is the new object
Cache_init(cls, app_name, obsolescence) ==
    IF obsolescence < 0
    THEN Result(fs, None, "CacheError")
    ELSE Result(create_app_dir(app_name),
                [app_name |-> app_name, obsolescence |-> obsolescence,
                 cls |-> cls, cache_dir |-> <<BaseDir, app_name>>],
                "none")

\* object i is constructed; last keeps the inputs and not the object
Construct(i, cls, app_name, obsolescence) ==
    LET r == Cache_init(cls, app_name, obsolescence) IN
    /\ i \notin DOMAIN objs
    /\ fs' = r.fs
    /\ objs' = IF r.err = "none"
               THEN [j \in DOMAIN objs \cup {i} |->
                        IF j = i THEN r.ret ELSE objs[j]]
               ELSE objs
    /\ last' = Call("__init__", i, app_name, obsolescence, cls,
                    Result(r.fs, None, r.err))
    /\ UNCHANGED <<platform, now, written>>

CtorInsts == {1, 2}

ObsolescenceArgs == {-1, 0, 10}

Classes == {"Cache", "CacheUrl"}

\* arguments of the calls made on the constructed objects
CtorNames == {"f.txt", "http://x/a.csv"}

CtorUrls == {"http://x/a.csv"}

CtorArgs(i) == IF IsUrlCache(i) THEN CtorUrls ELSE CtorNames

CtorResponses == {r \in Responses : r.text \in {<<"a">>, <<>>}}

\* nothing is constructed yet and base_dir holds no namespace directory
InitCtor ==
    /\ platform \in Platforms
    /\ objs = [i \in {} |-> None]
    /\ fs = [a \in {} |-> None]
    /\ now = 0
    /\ written = [a \in AppNames |-> EmptyDir]
    /\ last = NoCall

NextCtor ==
    \/ \E i \in CtorInsts, cls \in Classes, a \in AppNames,
          o \in ObsolescenceArgs : Construct(i, cls, a, o)
    \/ \E i \in DOMAIN objs, name \in CtorNames : Set(i, name, <<"a">>)
    \/ \E i \in DOMAIN objs : \E x \in CtorArgs(i) : Exists(i, x)
    \/ \E i \in DOMAIN objs : \E x \in CtorArgs(i) : Load(i, x)
    \/ \E i \in DOMAIN objs : \E x \in CtorArgs(i) : HowOld(i, x)
    \/ \E i \in DOMAIN objs : \E x \in CtorArgs(i) : Delete(i, x)
    \/ \E i \in DOMAIN objs : Clear(i)
    \/ \E i \in DOMAIN objs, url \in CtorUrls, resp \in CtorResponses :
          Get(i, url, resp)

SpecCtor == InitCtor /\ [][NextCtor]_vars

----------------------------------------------------------------------------
(* The passing of time.  The calls are those of Spec, made by one URL cache *)
(* and the generic cache with fewer arguments, between ticks of the clock.  *)

MaxClock == 2

Tick ==
    /\ now < MaxClock
    /\ now' = now + 1
    /\ last' = Call("tick", 0, None, None, None, Result(fs, None, "none"))
    /\ UNCHANGED <<platform, objs, fs, written>>

TimeInsts == {1, 3}

TimeNames == {"f.txt", "md5_a", "http://x/a.csv"}

TimeUrls == {"http://x/a.csv", "http://x/b.csv"}

TimeArgs(i) == IF IsUrlCache(i) THEN TimeUrls ELSE TimeNames

TimeResponses == {r \in Responses : r.text \in {<<"a", LF>>, <<"a">>}}

NextTime ==
    \/ Tick
    \/ \E i \in TimeInsts, name \in TimeNames : Set(i, name, <<"a">>)
    \/ \E i \in TimeInsts : \E x \in TimeArgs(i) : Exists(i, x)
    \/ \E i \in TimeInsts : \E x \in TimeArgs(i) : Load(i, x)
    \/ \E i \in TimeInsts : \E x \in TimeArgs(i) : HowOld(i, x)
    \/ \E i \in TimeInsts : \E x \in TimeArgs(i) : Delete(i, x)
    \/ \E i \in TimeInsts : Clear(i)
    \/ \E i \in TimeInsts, resp \in TimeResponses :
          Get(i, "http://x/a.csv", resp)

SpecTime == Init /\ [][NextTime]_vars

----------------------------------------------------------------------------
(* Failing unlinks.  Cache.clear walks the directory in the order iterdir() *)
(* yields and unlinks each file; the operating system refuses the unlink of *)
(* a file it has locked or protected, and the exception leaves the loop.    *)

\* the directory of the namespace of object i
DirOf(i) == fs[objs[i].app_name]

\* the orders in which iterdir() can yield the files of S
Orders(S) ==
    {o \in [1..Cardinality(S) -> S] : \A k \in S : \E n \in DOMAIN o : o[n] = k}

\* for f in order: f.unlink(), on directory d
RECURSIVE unlink_each(_, _, _)
unlink_each(d, order, locked) ==
    IF order = <<>>
    THEN [dir |-> d, err |-> "none", unlinked |-> {}]
    ELSE IF Head(order) \in locked
         THEN [dir |-> d, err |-> "PermissionError", unlinked |-> {}]
         ELSE LET r == unlink_each(without_file(d, Head(order)),
                                   Tail(order), locked)
              IN [r EXCEPT !.unlinked = @ \cup {Head(order)}]

\* variant: an unlink that fails is skipped and the loop goes on
Cache_clear_unlinking_swallowing(self, order, locked) ==
    IF ~dir_exists(self)
    THEN Result(fs, None, "FileNotFoundError")
    ELSE LET d == fs[self.app_name]
         IN Outcome([fs EXCEPT ![self.app_name] =
                        [n \in DOMAIN d \cap locked |-> d[n]]],
                    None, "none", <<>>, DOMAIN d \ locked)

\* Cache.clear where iterdir() yields order and the unlink of the files in
\* locked fails; Cache_clear is the case locked = {}
Cache_clear_unlinking(self, order, locked) ==
    IF ~dir_exists(self)
    THEN Result(fs, None, "FileNotFoundError")
    ELSE LET r == unlink_each(fs[self.app_name], order, locked)
         IN Outcome([fs EXCEPT ![self.app_name] = r.dir], None, r.err,
                    <<>>, r.unlinked)

\* clear() of object i; last keeps the order as arg and the files whose
\* unlink fails as data
ClearUnlinking(i, order, locked) ==
    LET r == Cache_clear_unlinking(objs[i], order, locked) IN
    /\ fs' = r.fs
    /\ last' = Call("clear", i, order, locked, None, r)
    /\ written' = [written EXCEPT ![objs[i].app_name] =
                      [n \in DOMAIN r.fs[objs[i].app_name] |-> @[n]]]
    /\ UNCHANGED <<platform, objs, now>>

OsInsts == {1, 3}

OsUrls == {"http://x/a.csv", "http://x/b.csv"}

OsArgs(i) == IF IsUrlCache(i) THEN OsUrls ELSE FileNames

OsResponses == {r \in Responses : r.text = <<"a">>}

NextOs ==
    \/ \E i \in OsInsts, name \in FileNames : Set(i, name, <<"a">>)
    \/ \E i \in OsInsts : \E x \in OsArgs(i) : Exists(i, x)
    \/ \E i \in OsInsts : \E x \in OsArgs(i) : Delete(i, x)
    \/ \E i \in OsInsts, url \in OsUrls, resp \in OsResponses :
          Get(i, url, resp)
    \/ \E i \in OsInsts :
          \E order \in Orders(DOMAIN DirOf(i)),
             locked \in SUBSET (DOMAIN DirOf(i)) :
                ClearUnlinking(i, order, locked)

SpecOs == Init /\ [][NextOs]_vars

----------------------------------------------------------------------------
(* class MadridFines (madridFines.py).  A MadridFines object owns a URL     *)
(* cache, the frames it has accumulated and the list loaded.  add runs to   *)
(* completion one iteration of its loop at a time; frame is the call in     *)
(* progress, <<>> when there is none.  An absent month (None) is <<>>, a    *)
(* month m is <<m>>.                                                        *)

MinYear == 2017

MaxYear == 2025

FirstMonth == 1

LastMonth == 12

\* ROOT + MADRID_FINES_URL
IndexUrl == "https://datos.madrid.es/index"

\* the CSV link the index page lists for a date
Href(year, month) ==
    IF month <= 6 THEN "http://x/a.csv" ELSE "http://x/b.csv"

\* requests.get(ROOT + MADRID_FINES_URL): the page lists the date asked for
\* or not, or the request fails
IndexPages ==
    { [exc |-> "none", status |-> 200, listed |-> l] : l \in BOOLEAN }
    \cup { [exc |-> "none", status |-> 500, listed |-> FALSE] }
    \cup { [exc |-> "ConnectionError", status |-> 0, listed |-> FALSE] }

\* variant: the request is made outside the try block
get_url_unwrapped(year, month, page) ==
    IF ~(MinYear <= year /\ year <= MaxYear)
    THEN Result(fs, None, "MadridError")
    ELSE IF ~(FirstMonth <= month /\ month <= LastMonth)
    THEN Result(fs, None, "MadridError")
    ELSE LET sent == <<Request(IndexUrl, page)>> IN
         IF page.exc # "none"
         THEN Outcome(fs, None, page.exc, sent, {})
         ELSE IF raise_for_status(page)
         THEN Outcome(fs, None, "HTTPError", sent, {})
         ELSE IF page.listed
              THEN Outcome(fs, Href(year, month), "none", sent, {})
              ELSE Outcome(fs, None, "MadridError", sent, {})

get_url(year, month, page) ==
    IF ~(MinYear <= year /\ year <= MaxYear)
    THEN Result(fs, None, "MadridError")
    ELSE IF ~(FirstMonth <= month /\ month <= LastMonth)
    THEN Result(fs, None, "MadridError")
    ELSE LET sent == <<Request(IndexUrl, page)>> IN
         IF page.exc # "none" \/ raise_for_status(page)
         THEN Outcome(fs, None, "MadridError", sent, {})
         ELSE IF page.listed
              THEN Outcome(fs, Href(year, month), "none", sent, {})
              ELSE Outcome(fs, None, "MadridError", sent, {})

\* pd.read_csv(StringIO(data), sep=';'): the frame parsed from the text
read_csv(data) == [csv |-> data, FECHA |-> FALSE]

\* MadridFines.clean(df): the columns normalised and FECHA computed
clean(df) == [df EXCEPT !.FECHA = TRUE]

\* MadridFines.load(year, month, cacheurl); gets lists the URLs handed to
\* cacheurl.get, and parses tells whether read_csv and clean accept the text
MadridFines_load(year, month, cacheurl, page, resp, parses) ==
    LET u == get_url(year, month, page) IN
    IF u.err # "none"
    THEN [fs |-> fs, ret |-> None, err |-> u.err, reqs |-> u.reqs,
          gets |-> <<>>]
    ELSE LET g == CacheUrl_get(cacheurl, u.ret, resp) IN
         IF g.err # "none"
         THEN [fs |-> g.fs, ret |-> None, err |-> g.err,
               reqs |-> u.reqs \o g.reqs, gets |-> <<u.ret>>]
         ELSE IF ~parses
         THEN [fs |-> g.fs, ret |-> None, err |-> "ParserError",
               reqs |-> u.reqs \o g.reqs, gets |-> <<u.ret>>]
         ELSE [fs |-> g.fs, ret |-> clean(read_csv(g.ret)), err |-> "none",
               reqs |-> u.reqs \o g.reqs, gets |-> <<u.ret>>]

\* variant: range(1, 12)
MadridFines_months_short(month) ==
    IF month = <<>> THEN [m \in 1..(LastMonth - 1) |-> m] ELSE month

\* the months add loops over: range(1, 13), or [month]
MadridFines_months(month) ==
    IF month = <<>> THEN [m \in 1..LastMonth |-> m] ELSE month

\* variant: only the upper end of the range is tested
month_invalid_upper_only(month) ==
    month # <<>> /\ month[1] > LastMonth

\* add when the month is given and not in 1..12
month_invalid(month) ==
    month # <<>> /\ ~(FirstMonth <= month[1] /\ month[1] <= LastMonth)

\* the elements of the list l
Elems(l) == {l[n] : n \in DOMAIN l}

\* calls of add made on one object
MaxAdds == 2

\* MadridFines(app_name, obsolecence): the object and its private URL cache
MadridFines_init(app_name, obsolecence, cacheurl) ==
    [cls |-> "MadridFines", app_name |-> app_name,
     obsolescence |-> obsolecence, cacheurl |-> cacheurl,
     data |-> <<>>, loaded |-> <<>>, frame |-> <<>>, calls |-> 0]

\* add(year, month) is called: the month is validated and the loop set up.
\* last keeps <<year, month>> as arg, the URLs handed to get as data and
\* loaded as it was when add was called as key.
AddCall(i, year, month) ==
    LET self == objs[i] IN
    /\ self.cls = "MadridFines"
    /\ self.frame = <<>>
    /\ self.calls < MaxAdds
    /\ IF month_invalid(month)
       THEN /\ objs' = [objs EXCEPT ![i].calls = @ + 1]
            /\ last' = Call("add", i, <<year, month>>, <<>>, self.loaded,
                            Result(fs, None, "MadridError"))
       ELSE /\ objs' = [objs EXCEPT
                          ![i].calls = @ + 1,
                          ![i].frame =
                              << [year |-> year, month |-> month,
                                  pending |-> MadridFines_months(month),
                                  gets |-> <<>>, reqs |-> <<>>,
                                  before |-> self.loaded] >>]
            /\ last' = Call("add_call", i, <<year, month>>, <<>>,
                            self.loaded, Result(fs, None, "none"))
    /\ UNCHANGED <<platform, fs, now, written>>

\* one iteration of the loop of add, for the month m at the head of pending;
\* add raises what load raises, and returns after the last month
AddStep(i, page, resp, parses) ==
    LET self == objs[i] IN
    /\ self.cls = "MadridFines"
    /\ self.frame # <<>>
    /\ LET fr   == self.frame[1]
           m    == Head(fr.pending)
           rest == Tail(fr.pending)
           skip == <<fr.year, m>> \in Elems(self.loaded)
           r    == IF skip
                   THEN [fs |-> fs, ret |-> None, err |-> "none",
                         reqs |-> <<>>, gets |-> <<>>]
                   ELSE MadridFines_load(fr.year, m, objs[self.cacheurl],
                                         page, resp, parses)
           gets == fr.gets \o r.gets
           reqs == fr.reqs \o r.reqs
           out  == Outcome(r.fs, None, r.err, reqs, {})
       IN /\ fs' = r.fs
          /\ written' = IF r.fs # fs
                        THEN [written EXCEPT ![objs[self.cacheurl].app_name] =
                                with_file(@, _hash(objs[self.cacheurl],
                                                   Head(r.gets)), resp.text)]
                        ELSE written
          /\ IF r.err # "none"
             THEN /\ objs' = [objs EXCEPT ![i].frame = <<>>]
                  /\ last' = Call("add", i, <<fr.year, fr.month>>, gets,
                                  fr.before, out)
             ELSE LET loaded == IF skip THEN self.loaded
                                ELSE Append(self.loaded, <<m, fr.year>>)
                      data   == IF skip THEN self.data
                                ELSE Append(self.data, r.ret)
                  IN IF rest = <<>>
                     THEN /\ objs' = [objs EXCEPT ![i].frame = <<>>,
                                                  ![i].loaded = loaded,
                                                  ![i].data = data]
                          /\ last' = Call("add", i, <<fr.year, fr.month>>,
                                          gets, fr.before, out)
                     ELSE /\ objs' = [objs EXCEPT
                                        ![i].frame =
                                            << [fr EXCEPT !.pending = rest,
                                                          !.gets = gets,
                                                          !.reqs = reqs] >>,
                                        ![i].loaded = loaded,
                                        ![i].data = data]
                          /\ last' = Call("add_iter", i,
                                          <<fr.year, fr.month>>, gets,
                                          fr.before, out)
    /\ UNCHANGED <<platform, now>>

FinesInst == 4

FinesYears == {2025, 2026}

FinesMonths == {<<>>, <<0>>, <<4>>, <<12>>, <<13>>}

FinesResponses == {r \in Responses : r.text = <<"a">>}

\* a MadridFines object constructed on the namespace "app1"
InitFines ==
    /\ platform \in Platforms
    /\ objs = [i \in {1, FinesInst} |->
                 IF i = 1
                 THEN [app_name |-> "app1", obsolescence |-> 10,
                       cls |-> "CacheUrl"]
                 ELSE MadridFines_init("app1", 10, 1)]
    /\ fs = [a \in {"app1"} |-> EmptyDir]
    /\ now = 0
    /\ written = [a \in AppNames |-> EmptyDir]
    /\ last = NoCall

NextFines ==
    \/ \E year \in FinesYears, month \in FinesMonths :
          AddCall(FinesInst, year, month)
    \/ \E page \in IndexPages, resp \in FinesResponses, parses \in BOOLEAN :
          AddStep(FinesInst, page, resp, parses)

SpecFines == InitFines /\ [][NextFines]_vars

----------------------------------------------------------------------------
(* get_url called on its own, with years and months on both sides of the    *)
(* limits of its ranges.                                                    *)

\* get_url(year, month) is called while the index page is as page says;
\* last keeps <<year, month>> as arg and the page as data
GetUrl(year, month, page) ==
    LET r == get_url(year, month, page) IN
    /\ fs' = r.fs
    /\ last' = Call("get_url", 0, <<year, month>>, page, None, r)
    /\ UNCHANGED <<platform, objs, now, written>>

UrlYears == {2016, 2017, 2025, 2026}

UrlMonths == {0, 1, 12, 13}

NextUrl ==
    \E year \in UrlYears, month \in UrlMonths, page \in IndexPages :
        GetUrl(year, month, page)

SpecUrl == InitFines /\ [][NextUrl]_vars

----------------------------------------------------------------------------
(* Two callers of CacheUrl.get, one step at a time.  A caller is a URL      *)
(* cache with the call it is in (frame, <<>> when it is in none) and the    *)
(* bodies its requests have fetched.  Cache.set is open(file, 'w'), which   *)
(* creates or truncates the file, then the write of the data at the start   *)
(* of the file when the block is left.                                      *)

\* bodies served over HTTP to the callers
RaceBodies == { <<"a", LF>>, <<"b">> }

RaceResponses ==
    { [exc |-> "none", status |-> 200, text |-> t] : t \in RaceBodies }
    \cup { [exc |-> "none", status |-> 500, text |-> <<"a", LF>>] }

RaceUrl == "http://x/a.csv"

\* open(file, 'w'): the file is created, or emptied if it exists
Cache_set_open(self, name) ==
    IF ~dir_exists(self) \/ name \notin FileNames
    THEN Result(fs, None, "FileNotFoundError")
    ELSE LET d   == fs[self.app_name]
             new == [content   |-> <<>>,
                     birthtime |-> IF name \in DOMAIN d
                                   THEN d[name].birthtime ELSE now,
                     mtime     |-> now]
         IN Result([fs EXCEPT ![self.app_name] = with_file(d, name, new)],
                   None, "none")

\* bytes written at offset 0 over the content the file has by then
write_at_start(content, bytes) ==
    bytes \o SubSeq(content, Len(bytes) + 1, Len(content))

\* f.write(data) and the close of the file opened by Cache_set_open
Cache_set_write(self, name, data) ==
    LET d   == fs[self.app_name]
        new == [d[name] EXCEPT
                   !.content = write_at_start(@, write_text(data, platform)),
                   !.mtime = now]
    IN Result([fs EXCEPT ![self.app_name] = with_file(d, name, new)],
              None, "none")

\* get(url) is called by caller i
GetCall(i, url) ==
    /\ objs[i].frame = <<>>
    /\ objs' = [objs EXCEPT ![i].frame =
                   << [pc |-> "exists", url |-> url, body |-> <<>>,
                       reqs |-> <<>>] >>]
    /\ UNCHANGED <<platform, fs, now, written, last>>

\* if super().exists(url_hashed)
GetExists(i) ==
    /\ objs[i].frame # <<>>
    /\ objs[i].frame[1].pc = "exists"
    /\ objs' = [objs EXCEPT ![i].frame[1].pc =
                   IF Cache_exists(objs[i],
                                   _hash(objs[i], objs[i].frame[1].url)).ret
                   THEN "load" ELSE "request"]
    /\ UNCHANGED <<platform, fs, now, written, last>>

\* return super().load(url_hashed)
GetLoad(i) ==
    /\ objs[i].frame # <<>>
    /\ objs[i].frame[1].pc = "load"
    /\ LET fr == objs[i].frame[1]
           r  == Cache_load(objs[i], _hash(objs[i], fr.url))
       IN /\ fs' = r.fs
          /\ last' = Call("get", i, fr.url, None, _hash(objs[i], fr.url), r)
    /\ objs' = [objs EXCEPT ![i].frame = <<>>]
    /\ UNCHANGED <<platform, now, written>>

\* response = requests.get(url); response.raise_for_status()
GetRequest(i, resp) ==
    /\ objs[i].frame # <<>>
    /\ objs[i].frame[1].pc = "request"
    /\ LET fr   == objs[i].frame[1]
           sent == <<Request(fr.url, resp)>>
       IN IF resp.exc # "none" \/ raise_for_status(resp)
          THEN /\ objs' = [objs EXCEPT ![i].frame = <<>>]
               /\ last' = Call("get", i, fr.url, None,
                               _hash(objs[i], fr.url),
                               Outcome(fs, None,
                                       IF resp.exc # "none" THEN resp.exc
                                       ELSE "HTTPError", sent, {}))
          ELSE /\ objs' = [objs EXCEPT
                             ![i].frame[1].pc = "open",
                             ![i].frame[1].body = resp.text,
                             ![i].frame[1].reqs = sent,
                             ![i].fetched = @ \cup {resp.text}]
               /\ last' = last
    /\ UNCHANGED <<platform, fs, now, written>>

\* super().set(url_hashed, response.text): open(file, 'w')
GetOpen(i) ==
    /\ objs[i].frame # <<>>
    /\ objs[i].frame[1].pc = "open"
    /\ LET fr == objs[i].frame[1]
           r  == Cache_set_open(objs[i], _hash(objs[i], fr.url))
       IN /\ fs' = r.fs
          /\ IF r.err # "none"
             THEN /\ objs' = [objs EXCEPT ![i].frame = <<>>]
                  /\ last' = Call("get", i, fr.url, None,
                                  _hash(objs[i], fr.url),
                                  Outcome(r.fs, None, r.err, fr.reqs, {}))
             ELSE /\ objs' = [objs EXCEPT ![i].frame[1].pc = "write"]
                  /\ last' = last
    /\ UNCHANGED <<platform, now, written>>

\* super().set(url_hashed, response.text): f.write(data) and the close;
\* return response.text
GetWrite(i) ==
    /\ objs[i].frame # <<>>
    /\ objs[i].frame[1].pc = "write"
    /\ LET fr == objs[i].frame[1]
           r  == Cache_set_write(objs[i], _hash(objs[i], fr.url), fr.body)
       IN /\ fs' = r.fs
          /\ written' = [written EXCEPT ![objs[i].app_name] =
                            with_file(@, _hash(objs[i], fr.url), fr.body)]
          /\ last' = Call("get", i, fr.url, None, _hash(objs[i], fr.url),
                          Outcome(r.fs, fr.body, "none", fr.reqs, {}))
    /\ objs' = [objs EXCEPT ![i].frame = <<>>]
    /\ UNCHANGED <<platform, now>>

Callers == {1, 2}

\* two URL caches on the namespace "app1", neither in a call
InitRace ==
    /\ platform \in Platforms
    /\ objs = [i \in Callers |->
                 [app_name |-> "app1",
                  obsolescence |-> IF i = 1 THEN 0 ELSE 10,
                  cls |-> "CacheUrl", frame |-> <<>>, fetched |-> {}]]
    /\ fs = [a \in {"app1"} |-> EmptyDir]
    /\ now = 0
    /\ written = [a \in AppNames |-> EmptyDir]
    /\ last = NoCall

NextRace ==
    \/ \E i \in Callers : GetCall(i, RaceUrl)
    \/ \E i \in Callers : GetExists(i)
    \/ \E i \in Callers : GetLoad(i)
    \/ \E i \in Callers, resp \in RaceResponses : GetRequest(i, resp)
    \/ \E i \in Callers : GetOpen(i)
    \/ \E i \in Callers : GetWrite(i)

SpecRace == InitRace /\ [][NextRace]_vars

----------------------------------------------------------------------------
(* Properties *)

Self == objs[last.inst]

Returned == last.err = "none"

\* C1: immediately after Cache.set(k, d) returns, exists(k) is true and
\* load(k) returns exactly d.
C1_SetThenLoad ==
    (last.op = "set" /\ Returned /\ ~IsUrlCache(last.inst)) =>
        /\ Cache_exists(Self, last.arg).ret
        /\ Cache_load(Self, last.arg).err = "none"
        /\ Cache_load(Self, last.arg).ret = last.data

\* C2: load(k) on an existing key returns the payload of the most recent
\* write (set, or the store of a get miss) of that key.
C2_LastWriteWins ==
    \A i \in Insts : \A k \in FileNames :
        path_exists(objs[i], k) =>
            /\ k \in DOMAIN written[objs[i].app_name]
            /\ Cache_load(objs[i], k).ret = written[objs[i].app_name][k]

\* C3: on a key that has no entry, exists returns false, and load, how_old
\* and delete fail with CacheError; the stored entries are left unchanged.
C3_MissingKey ==
    [][ ( /\ last'.op \in {"exists", "load", "how_old", "delete"}
          /\ ~path_exists(objs[last'.inst], last'.key) )
        => /\ fs' = fs
           /\ IF last'.op = "exists"
              THEN last'.err = "none" /\ last'.ret = FALSE
              ELSE last'.err = "CacheError" ]_vars

\* a lookup has failed on a key without entry while another entry is stored
C3_Witness ==
    /\ last.op \in {"load", "how_old", "delete"}
    /\ last.err = "CacheError"
    /\ ~path_exists(Self, last.key)
    /\ DOMAIN DirOf(last.inst) # {}

\* the outcome the generic cache gives for method op on file name key
Generic(op, self, key) ==
    CASE op = "exists"  -> Cache_exists(self, key)
      [] op = "load"    -> Cache_load(self, key)
      [] op = "how_old" -> Cache_how_old(self, key)
      [] op = "delete"  -> Cache_delete(self, key)

\* the call recorded in last' ended as outcome g says
SameOutcome(g) ==
    /\ last'.err = g.err
    /\ g.err = "none" => last'.ret = g.ret
    /\ last'.unlinked = g.unlinked
    /\ fs' = g.fs

NetworkFailed(q) == q.exc # "none" \/ q.status >= 400

\* C4: on a miss, get issues exactly one GET for the URL; when it succeeds
\* with body b, get returns b and stores it, so that exists(url) is true and
\* load(url) returns b.
C4_MissFetchesAndStores ==
    (last.op = "get" /\ last.reqs # <<>>) =>
        /\ Len(last.reqs) = 1
        /\ last.reqs[1].url = last.arg
        /\ ~NetworkFailed(last.reqs[1]) =>
              /\ Returned
              /\ CacheUrl_exists(Self, last.arg).ret
              /\ last.ret = written[Self.app_name][last.key]
              /\ CacheUrl_load(Self, last.arg).ret = last.ret

\* C5: a get of a URL that follows a successful get of the same URL issues
\* no request, leaves the cache unchanged and returns what the first returned.
C5_GetIdempotent ==
    [][ ( /\ last.op = "get" /\ last.err = "none"
          /\ last'.op = "get" /\ last'.arg = last.arg )
        => /\ last'.err = "none"
           /\ last'.reqs = <<>>
           /\ fs' = fs
           /\ last'.ret = last.ret ]_vars

\* C6: when the GET of a miss fails or returns an error status, get raises
\* the network error and stores nothing: the URL still has no entry and
\* every other entry is as it was.
C6_FailedFetchStoresNothing ==
    [][ ( /\ last'.op = "get" /\ last'.reqs # <<>>
          /\ NetworkFailed(last'.reqs[1]) )
        => /\ last'.err \in {"HTTPError", "ConnectionError"}
           /\ fs' = fs
           /\ last'.key \notin DOMAIN fs'[objs[last'.inst].app_name] ]_vars

\* a get has just failed on an error status while another entry is stored
C6_Witness ==
    /\ last.op = "get"
    /\ last.err = "HTTPError"
    /\ last.reqs[1].status = 500
    /\ ~CacheUrl_exists(Self, last.arg).ret
    /\ DOMAIN DirOf(last.inst) # {}

\* C7 as written: set on the URL cache takes a URL too and stores under its
\* digest, so that exists(url) is true after it.
C7_SetTakesUrl ==
    (last.op = "set" /\ IsUrlCache(last.inst) /\ last.arg \in Urls) =>
        /\ Returned
        /\ CacheUrl_exists(Self, last.arg).ret

\* C7: get, exists, load, how_old and delete of the URL cache act on the
\* file named by the digest of the URL: exists, load, how_old and delete end
\* as the generic method does on that name, and the entry a get leaves is
\* the one they find; set is inherited and uses its argument as the file name.
C7_UrlMethodsUseDigest ==
    [][ IsUrlCache(last'.inst) =>
          LET self == objs[last'.inst]
              key  == _hash(self, last'.arg)
          IN /\ last'.op \in {"exists", "load", "how_old", "delete"} =>
                    SameOutcome(Generic(last'.op, self, key))
             /\ last'.op = "set" =>
                    SameOutcome(Cache_set(self, last'.arg, last'.data))
             /\ (last'.op = "get" /\ last'.err = "none") =>
                    /\ key \in DOMAIN fs'[self.app_name]
                    /\ last'.reqs = <<>> => last'.ret = Cache_load(self, key).ret
       ]_vars

\* delete(url) on the URL cache has removed the entry a get(url) had stored
C7_Witness ==
    /\ last.op = "delete"
    /\ IsUrlCache(last.inst)
    /\ Returned
    /\ last.unlinked = {_hash(Self, last.arg)}

UrlMethods == {"get", "exists", "load", "how_old", "delete"}

\* C8: the file name used for a URL is the same on every call and every
\* URL cache, and get(u1) neither returns nor overwrites what is stored for
\* a URL u2 whose digest differs from that of u1.
C8_ContentAddressing ==
    [][ (last'.op \in UrlMethods /\ IsUrlCache(last'.inst)) =>
          LET self == objs[last'.inst]
              d    == fs[self.app_name]
          IN /\ ( /\ last.op \in UrlMethods /\ IsUrlCache(last.inst)
                  /\ last.arg = last'.arg ) => last'.key = last.key
             /\ last'.op = "get" =>
                  /\ \A u2 \in Urls :
                        _hash(self, u2) # _hash(self, last'.arg) =>
                          /\ (_hash(self, u2) \in DOMAIN fs'[self.app_name]) =
                                path_exists(self, _hash(self, u2))
                          /\ path_exists(self, _hash(self, u2)) =>
                                fs'[self.app_name][_hash(self, u2)] =
                                  d[_hash(self, u2)]
                  /\ (last'.err = "none" /\ last'.reqs = <<>>) =>
                        /\ last'.key \in DOMAIN d
                        /\ last'.ret = read_text(d[last'.key].content)
                        /\ last'.key = _hash(self, last'.arg)
       ]_vars

\* a get has stored a body while a URL with another digest holds an entry
C8_Witness ==
    /\ last.op = "get"
    /\ Returned
    /\ last.reqs # <<>>
    /\ \E u2 \in Urls :
          /\ _hash(Self, u2) # _hash(Self, last.arg)
          /\ CacheUrl_exists(Self, u2).ret

\* C9: delete(k) on an existing key removes that entry and no other.
C9_DeleteRemovesOne ==
    [][ ( /\ last'.op = "delete"
          /\ path_exists(objs[last'.inst], last'.key) )
        => LET a == objs[last'.inst].app_name
           IN /\ last'.err = "none"
              /\ DOMAIN fs' = DOMAIN fs
              /\ DOMAIN fs'[a] = DOMAIN fs[a] \ {last'.key}
              /\ \A k \in DOMAIN fs'[a] : fs'[a][k] = fs[a][k]
              /\ \A b \in DOMAIN fs \ {a} : fs'[b] = fs[b] ]_vars

\* a delete has removed one entry and another entry is still stored
C9_Witness ==
    /\ last.op = "delete"
    /\ Returned
    /\ last.unlinked = {last.key}
    /\ DOMAIN DirOf(last.inst) # {}

\* C10: after clear() returns, the namespace directory holds no file, and
\* exists is false for every key on every cache of that namespace.
C10_ClearEmpties ==
    (last.op = "clear" /\ Returned) =>
        /\ DOMAIN DirOf(last.inst) = {}
        /\ \A i \in Insts :
              objs[i].app_name = Self.app_name =>
                \A x \in Args(i) :
                    ~(IF IsUrlCache(i) THEN CacheUrl_exists(objs[i], x).ret
                                       ELSE Cache_exists(objs[i], x).ret)

\* a clear has removed an entry stored by set and one stored by get
C10_Witness ==
    /\ last.op = "clear"
    /\ Returned
    /\ {"f.txt", "md5_a"} \subseteq last.unlinked

\* C11: construction with obsolescence < 0 fails with CacheError for any
\* app name, before the namespace directory is created; obsolescence 0 is
\* accepted, and every object that exists has obsolescence >= 0.
C11_NegativeObsolescence ==
    [][ /\ last'.op = "__init__" =>
              IF last'.data < 0
              THEN /\ last'.err = "CacheError"
                   /\ fs' = fs
                   /\ objs' = objs
              ELSE /\ last'.err = "none"
                   /\ last'.inst \in DOMAIN objs'
                   /\ objs'[last'.inst].obsolescence = last'.data
        /\ \A i \in DOMAIN objs' : objs'[i].obsolescence >= 0 ]_vars

\* a construction has failed on a namespace that has no directory, after
\* another object was constructed with obsolescence 0
C11_Witness ==
    /\ last.op = "__init__"
    /\ last.err = "CacheError"
    /\ last.arg \notin DOMAIN fs
    /\ \E i \in DOMAIN objs : objs[i].obsolescence = 0

\* C12: a successful construction creates the namespace directory, keeping
\* it as it is when it exists, and the object has the app_name, obsolescence
\* and cache_dir of the inputs; no later call removes the directory of an
\* object or changes these attributes.
C12_DirectoryAndAttributes ==
    [][ /\ (last'.op = "__init__" /\ last'.err = "none") =>
              /\ last'.arg \in DOMAIN fs'
              /\ fs'[last'.arg] = IF last'.arg \in DOMAIN fs
                                  THEN fs[last'.arg] ELSE EmptyDir
              /\ \A a \in DOMAIN fs : a \in DOMAIN fs' /\ fs'[a] = fs[a]
              /\ objs'[last'.inst].app_name = last'.arg
              /\ objs'[last'.inst].obsolescence = last'.data
              /\ objs'[last'.inst].cache_dir = <<BaseDir, last'.arg>>
              /\ objs'[last'.inst].cls = last'.key
        /\ \A i \in DOMAIN objs :
              /\ i \in DOMAIN objs'
              /\ objs'[i] = objs[i]
              /\ objs[i].app_name \in DOMAIN fs' ]_vars

\* an object has been constructed on a namespace whose directory existed
\* and held a file, and the file is still there
C12_Witness ==
    /\ last.op = "__init__"
    /\ Returned
    /\ last.arg \in DOMAIN fs
    /\ DOMAIN fs[last.arg] # {}
    /\ \E i \in DOMAIN objs : i # last.inst /\ objs[i].app_name = last.arg

\* the outcome of method op of object i on argument x, resolved on its class
Method(op, i, x) ==
    IF IsUrlCache(i)
    THEN CASE op = "exists"  -> CacheUrl_exists(objs[i], x)
           [] op = "load"    -> CacheUrl_load(objs[i], x)
           [] op = "how_old" -> CacheUrl_how_old(objs[i], x)
           [] op = "delete"  -> CacheUrl_delete(objs[i], x)
    ELSE Generic(op, objs[i], x)

\* C13: an HTTP request is issued only by get, and only when the URL has no
\* entry; exists, load, how_old, delete, set and clear never issue one.
C13_OnlyGetFetches ==
    [][ last'.reqs # <<>> =>
          /\ last'.op = "get"
          /\ IsUrlCache(last'.inst)
          /\ ~path_exists(objs[last'.inst], last'.key) ]_vars

\* a lookup on the URL cache has failed on a URL that is not cached, without
\* any request
C13_Witness ==
    /\ last.op \in {"load", "how_old", "delete"}
    /\ IsUrlCache(last.inst)
    /\ last.err = "CacheError"
    /\ last.reqs = <<>>
    /\ last.arg \in Urls

\* C14: no call removes or rewrites an entry because of its age: get on a
\* cached URL returns the stored payload and issues no GET whatever its age,
\* an entry disappears only through delete or clear and changes only
\* through set.
C14_StalenessAdvisory ==
    [][ /\ (last'.op = "get" /\ path_exists(objs[last'.inst], last'.key)) =>
              /\ last'.err = "none"
              /\ last'.reqs = <<>>
              /\ last'.ret = Cache_load(objs[last'.inst], last'.key).ret
              /\ fs' = fs
        /\ \A a \in DOMAIN fs : \A k \in DOMAIN fs[a] :
              IF a \in DOMAIN fs' /\ k \in DOMAIN fs'[a]
              THEN fs'[a][k] # fs[a][k] => last'.op = "set"
              ELSE last'.op \in {"delete", "clear"} ]_vars

\* a get has returned an entry older than the obsolescence of its cache,
\* without any request
C14_Witness ==
    /\ last.op = "get"
    /\ Returned
    /\ last.reqs = <<>>
    /\ Cache_how_old(Self, last.key).ret > Self.obsolescence

\* C15: how_old(k) on an existing key returns 1000 * (now - t), t being the
\* creation time of the file, or its modification time on a platform without
\* creation time; it never fails there and is never negative, in particular
\* right after set(k, .).
C15_HowOld ==
    [][ (last'.op = "how_old" /\ path_exists(objs[last'.inst], last'.key)) =>
          LET f == fs[objs[last'.inst].app_name][last'.key]
              t == IF platform = "linux" THEN f.mtime ELSE f.birthtime
          IN /\ last'.err = "none"
             /\ last'.ret = 1000 * (now - t)
             /\ last'.ret >= 0
             /\ ( /\ last.op = "set" /\ last.err = "none"
                  /\ last.key = last'.key /\ platform = "linux" )
                  => last'.ret = 0 ]_vars

\* how_old has returned a positive age where only the modification time
\* is available
C15_Witness ==
    /\ last.op = "how_old"
    /\ Returned
    /\ platform = "linux"
    /\ last.ret > 0

LookupArgs(i) == IF IsUrlCache(i) THEN Urls ELSE Names

\* C16: exists(k) is true exactly when load(k), how_old(k) and delete(k),
\* each called next, succeed.
C16_ExistsAgrees ==
    /\ \A i \in DOMAIN objs : \A x \in LookupArgs(i) :
          \A op \in {"load", "how_old", "delete"} :
              Method("exists", i, x).ret <=> (Method(op, i, x).err = "none")
    /\ last.op = "exists" =>
          \A op \in {"load", "how_old", "delete"} :
              last.ret <=> (Method(op, last.inst, last.arg).err = "none")

\* exists has returned true for one key and would return false for another
C16_Witness ==
    /\ last.op = "exists"
    /\ last.ret = TRUE
    /\ \E x \in LookupArgs(last.inst) : ~Method("exists", last.inst, x).ret

\* the objects i and j have the same namespace directory
SameNamespace(i, j) == objs[i].app_name = objs[j].app_name

\* the payload the call in last has stored: the data of a set, the body
\* returned by the get of a miss
Stored == IF last.op = "set" THEN last.data ELSE last.ret

\* C17: objects on the same namespace have one set of entries: exists and
\* load give every object the same answer for the same file, and right after
\* a set, the store of a get miss, a delete or a clear through one object,
\* exists and load on every other object see the entry stored (with the
\* payload as text-mode reading returns it) or gone.
C17_SharedNamespace ==
    /\ \A i \in Insts, j \in Insts :
          SameNamespace(i, j) =>
            \A x \in Args(i), y \in Args(j) :
                KeyOf(i, x) = KeyOf(j, y) =>
                    /\ Method("exists", i, x) = Method("exists", j, y)
                    /\ Method("load", i, x) = Method("load", j, y)
    /\ (last.inst \in Insts /\ Returned) =>
          \A j \in Insts \ {last.inst} :
            SameNamespace(last.inst, j) =>
              \A y \in Args(j) :
                /\ ( /\ \/ last.op = "set"
                         \/ (last.op = "get" /\ last.reqs # <<>>)
                      /\ KeyOf(j, y) = last.key ) =>
                        /\ Method("exists", j, y).ret
                        /\ Method("load", j, y).err = "none"
                        /\ Method("load", j, y).ret
                               = read_text(write_text(Stored, platform))
                /\ ( \/ (last.op = "delete" /\ KeyOf(j, y) = last.key)
                      \/ last.op = "clear" ) =>
                        /\ ~Method("exists", j, y).ret
                        /\ Method("load", j, y).err = "CacheError"

\* a URL cache has stored the body of a miss, and the generic cache of the
\* same namespace loads it under the digest while another entry, stored
\* through the generic cache, is seen by the URL cache
C17_Witness ==
    /\ last.op = "get"
    /\ Returned
    /\ last.reqs # <<>>
    /\ \E j \in Insts \ {last.inst} :
          /\ ~IsUrlCache(j)
          /\ SameNamespace(last.inst, j)
          /\ Method("load", j, last.key).err = "none"
    /\ \E u \in Urls :
          /\ KeyOf(last.inst, u) # last.key
          /\ Method("exists", last.inst, u).ret

\* C18: clear() ends with the error of the first unlink that fails, leaving
\* the files it has not unlinked as they were; it returns exactly when no
\* unlink fails, and then the namespace directory holds no file.
C18_ClearPropagates ==
    [][ last'.op = "clear" =>
          LET a == objs[last'.inst].app_name
              failing == last'.data \cap DOMAIN fs[a]
          IN /\ failing # {} => last'.err = "PermissionError"
             /\ failing = {} => last'.err = "none"
             /\ last'.err = "none" => DOMAIN fs'[a] = {}
             /\ last'.unlinked = DOMAIN fs[a] \ DOMAIN fs'[a]
             /\ failing \subseteq DOMAIN fs'[a]
             /\ \A k \in DOMAIN fs'[a] : k \in DOMAIN fs[a]
                                           /\ fs'[a][k] = fs[a][k] ]_vars

\* a clear has unlinked one file, failed on the next, and left a third one
\* whose unlink would not have failed
C18_Witness ==
    /\ last.op = "clear"
    /\ last.err = "PermissionError"
    /\ last.unlinked # {}
    /\ \E k \in DOMAIN DirOf(last.inst) : k \notin last.data

\* C20: an add that returns, called on an object that has loaded nothing,
\* leaves loaded = [(month, year)] after exactly one call of the URL cache's
\* get when the month is given, and loaded = [(1, year), ..., (12, year)]
\* after twelve calls of get, one per month in ascending order, when the
\* month is omitted.
C20_AddRecords ==
    (last.op = "add" /\ Returned /\ last.key = <<>>) =>
        LET year  == last.arg[1]
            month == last.arg[2]
        IN IF month # <<>>
           THEN /\ Self.loaded = << <<month[1], year>> >>
                /\ last.data = << Href(year, month[1]) >>
           ELSE /\ Self.loaded = [m \in 1..12 |-> <<m, year>>]
                /\ last.data = [m \in 1..12 |-> Href(year, m)]

\* the first add of an object has loaded a whole year, fetching each of the
\* two files once and serving the other ten months from the cache
C20_Witness ==
    /\ last.op = "add"
    /\ Returned
    /\ last.key = <<>>
    /\ last.arg[2] = <<>>
    /\ Len(Self.loaded) = 12
    /\ Len(last.reqs) = 14

\* C19: an entry comes into existence only through set or get and goes
\* only through delete or clear; exists, load and how_old leave every entry
\* as it is, whether they return or raise.
C19_Lifecycle ==
    [][ /\ \A a \in DOMAIN fs' : \A k \in DOMAIN fs'[a] :
              (a \notin DOMAIN fs \/ k \notin DOMAIN fs[a]) =>
                  last'.op \in {"set", "get"}
        /\ \A a \in DOMAIN fs : \A k \in DOMAIN fs[a] :
              (a \notin DOMAIN fs' \/ k \notin DOMAIN fs'[a]) =>
                  last'.op \in {"delete", "clear"}
        /\ last'.op \in {"exists", "load", "how_old"} => fs' = fs ]_vars

\* a read has returned and the entry it has read is still stored
C19_Witness ==
    /\ last.op \in {"load", "how_old"}
    /\ Returned
    /\ path_exists(Self, last.key)

\* C21: add(year, month) with a month outside 1..12 raises MadridError in
\* the call itself, before the loop that looks up URLs and reads the cache:
\* no HTTP request, no call of get, and the file system, loaded and the
\* accumulated data stay as they were.
C21_InvalidMonth ==
    [][ ( /\ last'.op \in {"add", "add_call"}
          /\ objs'[last'.inst].calls # objs[last'.inst].calls
          /\ last'.arg[2] # <<>>
          /\ ~(1 <= last'.arg[2][1] /\ last'.arg[2][1] <= 12) )
        => /\ last'.op = "add"
           /\ last'.err = "MadridError"
           /\ last'.reqs = <<>>
           /\ last'.data = <<>>
           /\ fs' = fs
           /\ objs'[last'.inst].frame = <<>>
           /\ objs'[last'.inst].loaded = objs[last'.inst].loaded
           /\ objs'[last'.inst].data = objs[last'.inst].data ]_vars

\* an add with month 0 has failed on an object that had loaded a month
C21_Witness ==
    /\ last.op = "add"
    /\ last.err = "MadridError"
    /\ last.arg[2] = <<0>>
    /\ Self.loaded # <<>>
    /\ Self.data # <<>>

\* C22: get_url raises MadridError without an HTTP request when the year is
\* outside 2017..2025 or the month outside 1..12; otherwise it requests the
\* index page once, and a failed request or a page that does not list the
\* date raise MadridError too: no other exception leaves get_url.
C22_GetUrlErrors ==
    last.op = "get_url" =>
        LET year  == last.arg[1]
            month == last.arg[2]
            page  == last.data
        IN /\ last.err \in {"none", "MadridError"}
           /\ IF year < 2017 \/ year > 2025 \/ month < 1 \/ month > 12
              THEN last.err = "MadridError" /\ last.reqs = <<>>
              ELSE /\ Len(last.reqs) = 1
                   /\ last.reqs[1].url = IndexUrl
                   /\ (page.exc # "none" \/ page.status >= 400
                          \/ ~page.listed) => last.err = "MadridError"
                   /\ (page.exc = "none" /\ page.status < 400
                          /\ page.listed) =>
                              /\ last.err = "none"
                              /\ last.ret = Href(year, month)

\* the request of the index page has failed in the transport and get_url
\* has raised MadridError
C22_Witness ==
    /\ last.op = "get_url"
    /\ last.err = "MadridError"
    /\ last.reqs # <<>>
    /\ last.reqs[1].exc = "ConnectionError"

\* C23: no (month, year) pair is loaded twice: the pairs in loaded are
\* pairwise different, and loaded and the accumulated data grow together,
\* one frame per pair.
C23_NoDuplicateLoad ==
    \A i \in DOMAIN objs :
        objs[i].cls = "MadridFines" =>
            /\ \A m, n \in DOMAIN objs[i].loaded :
                  m # n => objs[i].loaded[m] # objs[i].loaded[n]
            /\ Len(objs[i].data) = Cardinality(Elems(objs[i].loaded))

\* the bodies the requests of the callers have fetched
Fetched == UNION {objs[i].fetched : i \in DOMAIN objs}

\* no store is between its open and the end of its write
NoStoreInProgress ==
    \A i \in DOMAIN objs :
        objs[i].frame = <<>> \/ objs[i].frame[1].pc \notin {"open", "write"}

\* C24: with two callers interleaving get(url), every get that returns
\* returns a whole body that a successful request has fetched, also when
\* it found the entry in the cache, and once no store is in progress the
\* entry stored is one of the fetched bodies.
C24_InterleavedGet ==
    /\ (last.op = "get" /\ Returned) => last.ret \in Fetched
    /\ \A i \in DOMAIN objs :
          (NoStoreInProgress /\ path_exists(objs[i], _hash(objs[i], RaceUrl)))
            => \E b \in Fetched :
                  DirOf(i)[_hash(objs[i], RaceUrl)].content
                      = write_text(b, platform)

\* C25: how_old(k) is the time, in milliseconds, since the latest write of
\* the entry k, on every platform.
C25_AgeSinceLastWrite ==
    (last.op = "how_old" /\ Returned) =>
        last.ret = (now - DirOf(last.inst)[last.key].mtime) * 1000

\* C26: clear() removes files of the namespace directory of its own object
\* only: the files it unlinks were in that directory, and every other
\* directory under base_dir keeps its files, with their content and times.
C26_ClearConfined ==
    [][ last'.op = "clear" =>
          LET a == objs[last'.inst].app_name
          IN /\ DOMAIN fs' = DOMAIN fs
             /\ last'.unlinked \subseteq DOMAIN fs[a]
             /\ \A b \in DOMAIN fs \ {a} : fs'[b] = fs[b]
             /\ \A j \in DOMAIN objs :
                   objs[j].app_name # a =>
                     \A x \in CtorArgs(j) :
                        path_exists(objs[j], KeyOf(j, x)) =>
                          /\ KeyOf(j, x) \in DOMAIN fs'[objs[j].app_name]
                          /\ fs'[objs[j].app_name][KeyOf(j, x)]
                                = fs[objs[j].app_name][KeyOf(j, x)] ]_vars

\* a clear has removed the files of its namespace and the cache of the
\* other namespace still has an entry
C26_Witness ==
    /\ last.op = "clear"
    /\ Returned
    /\ last.unlinked # {}
    /\ \E j \in DOMAIN objs :
          /\ objs[j].app_name # Self.app_name
          /\ DOMAIN DirOf(j) # {}

====
